---- MODULE Spec2Model ----
(***************************************************************************)
(* A model of bench_compare_multiple (src/bench/bench_compare.py, lines    *)
(* 144-169): the loop that runs every named callable on every parameter    *)
(* group, times the invocation and prints a header, a result line and a    *)
(* time line.  One action per source line of the loop; an exception that   *)
(* no handler catches ends the run in the state pc = "raised".            *)
(***************************************************************************)
EXTENDS Integers, Sequences, FiniteSets, TLC

\* ------------------------------------------------------------------ bounds

\* At most this many callables are passed as **fn_names.
MaxFns == 2
\* At most this many parameter groups are passed as *param_groups.
MaxGroups == 2
\* The clock (time.time(), in ticks) does not advance past this value.
MaxClock == 1

\* ------------------------------------------------------------------ values

\* Python values that flow through the loop: an int, or a tuple of ints.
IntV(n) == [t |-> "int", i |-> n, s |-> <<>>]
TupV(q) == [t |-> "tuple", i |-> 0, s |-> q]
NoneV == [t |-> "None", i |-> 0, s |-> <<>>]

RECURSIVE SumSeq(_)
\* sum(seq) of a tuple of ints
SumSeq(q) == IF q = <<>> THEN 0 ELSE Head(q) + SumSeq(Tail(q))

RECURSIVE JoinInts(_)
\* ", ".join(map(repr, q)) for a non-empty tuple of ints
JoinInts(q) ==
  IF Len(q) = 1 THEN ToString(Head(q))
  ELSE ToString(Head(q)) \o ", " \o JoinInts(Tail(q))

\* str(v), as str.format renders a value in a "{}" field
Str(v) ==
  CASE v.t = "int" -> ToString(v.i)
    [] v.t = "None" -> "None"
    [] v.t = "tuple" ->
         IF Len(v.s) = 0 THEN "()"
         ELSE IF Len(v.s) = 1 THEN "(" \o ToString(v.s[1]) \o ",)"
         ELSE "(" \o JoinInts(v.s) \o ")"

\* ---------------------------------------------------------------- callables

\* The callables under test, by signature and body:
\*   add     = lambda a, b: a + b
\*   sum_seq = lambda seq: sum(seq)
\*   boom    = def boom(*args): raise ValueError
Callables == {"add", "sum_seq", "boom"}

\* The parameter groups a run may be given (tuples of ints).
Groups == {<<5>>, <<1, 2>>, <<3, 4>>}

Returned(v) == [ok |-> TRUE, val |-> v, exc |-> "none", bound |-> TRUE]
Raised(e, b) == [ok |-> FALSE, val |-> NoneV, exc |-> e, bound |-> b]

\* fn(*args): the outcome of calling callable name with the argument list
\* args (a sequence of values).  bound tells whether the arguments bound to
\* the signature; an exception with bound = TRUE comes from the body.
Call(name, args) ==
  CASE name = "add" ->
         IF Len(args) # 2 THEN Raised("TypeError", FALSE)
         ELSE Returned(IntV(args[1].i + args[2].i))
    [] name = "sum_seq" ->
         IF Len(args) # 1 THEN Raised("TypeError", FALSE)
         ELSE IF args[1].t = "tuple" THEN Returned(IntV(SumSeq(args[1].s)))
         ELSE Raised("TypeError", TRUE)
    [] name = "boom" -> Raised("ValueError", TRUE)

\* *pg: the group unpacked into positional arguments (each one an int)
Unpacked(pg) == [k \in 1..Len(pg) |-> IntV(pg[k])]
\* pg: the whole group as the single argument
Whole(pg) == <<TupV(pg)>>

\* ------------------------------------------------------------------ inputs

\* The values of the logger parameter: a message-only callable, here print
\* itself, or a logging.Logger.
Loggers == {"print", "Logger"}

SeqsUpTo(S, n) == UNION {[1..k -> S] : k \in 0..n}

\* **fn_names: keyword names are unique, and keep their order
FnNameInputs ==
  {q \in SeqsUpTo(Callables, MaxFns) :
     \A a, b \in 1..Len(q) : a # b => q[a] # q[b]}

\* *param_groups
ParamGroupInputs == SeqsUpTo(Groups, MaxGroups)

\* ------------------------------------------------------------------- state

VARIABLES
  logger,        \* the logger argument
  param_groups,  \* the *param_groups argument
  fn_names,      \* the **fn_names argument, as the sequence of its names
  pc,            \* the line about to run, "returned" or "raised"
  fi,            \* position of the outer loop in fn_names
  gi,            \* position of the inner loop in param_groups
  str_params,    \* the formatting dictionary
  start,         \* local: the clock value read before the invocation
  exec,          \* local: the elapsed time
  result,        \* local: the value the invocation returned
  exc,           \* the exception that left the function, "none" if none
  now,           \* the clock time.time() reads
  out,           \* the lines written so far, each with its destination
  trace          \* history: clock reads, invocations and prints, in order

vars == <<logger, param_groups, fn_names, pc, fi, gi, str_params, start,
          exec, result, exc, now, out, trace>>

\* The dictionary: keys tells which entries are set.
EmptyDict == [keys |-> {}, name |-> "", params |-> NoneV, time |-> 0, ans |-> NoneV]

title_str == "Testing {name}:"
ans_str == "\t{name}({params}) = {ans}"
time_str == "\tTime = {time}"

\* template.format(**d)
Format(template, d) ==
  CASE template = title_str -> "Testing " \o d.name \o ":"
    [] template = ans_str ->
         "\t" \o d.name \o "(" \o Str(d.params) \o ") = " \o Str(d.ans)
    [] template = time_str -> "\tTime = " \o ToString(d.time)

\* print(template.format(**d)): the line goes to print's destination,
\* whatever logger is.  The line keeps the template it was formatted from
\* beside its text, and the position at which its print enters the history.
Emit(template, d) ==
  [to |-> "print", tmpl |-> template, text |-> Format(template, d),
   at |-> Len(trace) + 1]

\* One entry of the history: a clock read (v: the value read), an invocation
\* (mode, exc, bound, val: the value returned, v: the ticks it took) or a
\* print (v: the line's position in out), made for pair (f, g).
Event(e, m, o, v) ==
  [ev |-> e, f |-> fi, g |-> gi, mode |-> m, exc |-> o.exc, bound |-> o.bound,
   val |-> o.val, v |-> v]
TimeEvent == Event("time", "", Returned(NoneV), now)
PrintEvent == Event("print", "", Returned(NoneV), Len(out) + 1)

Init ==
  /\ logger \in Loggers
  /\ param_groups \in ParamGroupInputs
  /\ fn_names \in FnNameInputs
  /\ pc = "L154"
  /\ fi = 0
  /\ gi = 0
  /\ str_params = EmptyDict
  /\ start = 0
  /\ exec = 0
  /\ result = NoneV
  /\ exc = "none"
  /\ now = 0
  /\ out = <<>>
  /\ trace = <<>>

\* L154 failing fast on an empty mapping
L154_FailFast ==
  /\ pc = "L154"
  /\ IF fi < Len(fn_names)
     THEN fi' = fi + 1 /\ gi' = 0 /\ pc' = "L155" /\ exc' = exc
     ELSE IF Len(fn_names) = 0
     THEN fi' = fi /\ gi' = gi /\ pc' = "raised" /\ exc' = "ValueError"
     ELSE fi' = fi /\ gi' = gi /\ pc' = "returned" /\ exc' = exc
  /\ UNCHANGED <<logger, param_groups, fn_names, str_params, start, exec,
                 result, now, out, trace>>

\* for name, fn in fn_names.items():  (the inner loop starts afresh for
\* each callable)
L154 ==
  /\ pc = "L154"
  /\ IF fi < Len(fn_names)
     THEN fi' = fi + 1 /\ gi' = 0 /\ pc' = "L155"
     ELSE fi' = fi /\ gi' = gi /\ pc' = "returned"
  /\ UNCHANGED <<logger, param_groups, fn_names, str_params, start, exec,
                 result, exc, now, out, trace>>

\* str_params = {'name': name}
L155 ==
  /\ pc = "L155"
  /\ str_params' = [EmptyDict EXCEPT !.keys = {"name"}, !.name = fn_names[fi]]
  /\ pc' = "L156"
  /\ UNCHANGED <<logger, param_groups, fn_names, fi, gi, start, exec, result,
                 exc, now, out, trace>>

\* print(title_str.format(**str_params))
L156 ==
  /\ pc = "L156"
  /\ out' = Append(out, Emit(title_str, str_params))
  /\ trace' = Append(trace, PrintEvent)
  /\ pc' = "L157"
  /\ UNCHANGED <<logger, param_groups, fn_names, fi, gi, str_params, start,
                 exec, result, exc, now>>

\* L157 leaving the loop one group early
L157_SkipLast ==
  /\ pc = "L157"
  /\ IF gi + 1 < Len(param_groups)
     THEN gi' = gi + 1 /\ pc' = "L158"
     ELSE gi' = gi /\ pc' = "L154"
  /\ UNCHANGED <<logger, param_groups, fn_names, fi, str_params, start, exec,
                 result, exc, now, out, trace>>

\* for pg in param_groups:
L157 ==
  /\ pc = "L157"
  /\ IF gi < Len(param_groups)
     THEN gi' = gi + 1 /\ pc' = "L158"
     ELSE gi' = gi /\ pc' = "L154"
  /\ UNCHANGED <<logger, param_groups, fn_names, fi, str_params, start, exec,
                 result, exc, now, out, trace>>

\* str_params |= {'params': pg}
L158 ==
  /\ pc = "L158"
  /\ str_params' = [str_params EXCEPT !.keys = @ \cup {"params"},
                                      !.params = TupV(param_groups[gi])]
  /\ pc' = "L160"
  /\ UNCHANGED <<logger, param_groups, fn_names, fi, gi, start, exec, result,
                 exc, now, out, trace>>

\* start = time.time()
L160 ==
  /\ pc = "L160"
  /\ start' = now
  /\ trace' = Append(trace, TimeEvent)
  /\ pc' = "L161"
  /\ UNCHANGED <<logger, param_groups, fn_names, fi, gi, str_params, exec,
                 result, exc, now, out>>

\* L161 with a handler that skips the pair on any other exception
L161_Isolating ==
  /\ pc = "L161"
  /\ \E d \in 0..1 :
       /\ now + d <= MaxClock
       /\ now' = now + d
  /\ LET o == Call(fn_names[fi], Unpacked(param_groups[gi])) IN
       /\ trace' = Append(trace, Event("call", "unpacked", o, now' - now))
       /\ IF o.ok
          THEN result' = o.val /\ pc' = "L162"
          ELSE IF o.exc = "TypeError"
          THEN result' = result /\ pc' = "L164"
          ELSE result' = result /\ pc' = "L157"
  /\ UNCHANGED <<logger, param_groups, fn_names, fi, gi, str_params, start,
                 exec, exc, out>>

\* L161 with "except Exception:" in place of "except TypeError:"
L161_CatchAll ==
  /\ pc = "L161"
  /\ \E d \in 0..1 :
       /\ now + d <= MaxClock
       /\ now' = now + d
  /\ LET o == Call(fn_names[fi], Unpacked(param_groups[gi])) IN
       /\ trace' = Append(trace, Event("call", "unpacked", o, now' - now))
       /\ IF o.ok
          THEN result' = o.val /\ pc' = "L162"
          ELSE result' = result /\ pc' = "L164"
  /\ UNCHANGED <<logger, param_groups, fn_names, fi, gi, str_params, start,
                 exec, exc, out>>

\* result = fn(*pg), which takes d ticks; except TypeError: goes to line 164,
\* any other exception leaves the function
L161 ==
  /\ pc = "L161"
  /\ \E d \in 0..1 :
       /\ now + d <= MaxClock
       /\ now' = now + d
  /\ LET o == Call(fn_names[fi], Unpacked(param_groups[gi])) IN
       /\ trace' = Append(trace, Event("call", "unpacked", o, now' - now))
       /\ IF o.ok
          THEN result' = o.val /\ pc' = "L162" /\ exc' = exc
          ELSE IF o.exc = "TypeError"
          THEN result' = result /\ pc' = "L164" /\ exc' = exc
          ELSE result' = result /\ pc' = "raised" /\ exc' = o.exc
  /\ UNCHANGED <<logger, param_groups, fn_names, fi, gi, str_params, start,
                 exec, out>>

\* exec = time.time() - start
L162 ==
  /\ pc = "L162"
  /\ exec' = now - start
  /\ trace' = Append(trace, TimeEvent)
  /\ pc' = "L167"
  /\ UNCHANGED <<logger, param_groups, fn_names, fi, gi, str_params, start,
                 result, exc, now, out>>

\* L164 keeping the start read before the failed attempt
L164_NoReread ==
  /\ pc = "L164"
  /\ pc' = "L165"
  /\ UNCHANGED <<logger, param_groups, fn_names, fi, gi, str_params, start,
                 exec, result, exc, now, out, trace>>

\* except TypeError: start = time.time()
L164 ==
  /\ pc = "L164"
  /\ start' = now
  /\ trace' = Append(trace, TimeEvent)
  /\ pc' = "L165"
  /\ UNCHANGED <<logger, param_groups, fn_names, fi, gi, str_params, exec,
                 result, exc, now, out>>

\* L165 unpacking the group again, fn(*pg)
L165_Unpacked ==
  /\ pc = "L165"
  /\ \E d \in 0..1 :
       /\ now + d <= MaxClock
       /\ now' = now + d
  /\ LET o == Call(fn_names[fi], Unpacked(param_groups[gi])) IN
       /\ trace' = Append(trace, Event("call", "whole", o, now' - now))
       /\ IF o.ok
          THEN result' = o.val /\ pc' = "L166" /\ exc' = exc
          ELSE result' = result /\ pc' = "raised" /\ exc' = o.exc
  /\ UNCHANGED <<logger, param_groups, fn_names, fi, gi, str_params, start,
                 exec, out>>

\* result = fn(pg), which takes d ticks; an exception raised here is inside
\* the handler, so it leaves the function
L165 ==
  /\ pc = "L165"
  /\ \E d \in 0..1 :
       /\ now + d <= MaxClock
       /\ now' = now + d
  /\ LET o == Call(fn_names[fi], Whole(param_groups[gi])) IN
       /\ trace' = Append(trace, Event("call", "whole", o, now' - now))
       /\ IF o.ok
          THEN result' = o.val /\ pc' = "L166" /\ exc' = exc
          ELSE result' = result /\ pc' = "raised" /\ exc' = o.exc
  /\ UNCHANGED <<logger, param_groups, fn_names, fi, gi, str_params, start,
                 exec, out>>

\* L166 with the operands of the subtraction exchanged
L166_Negated ==
  /\ pc = "L166"
  /\ exec' = start - now
  /\ trace' = Append(trace, TimeEvent)
  /\ pc' = "L167"
  /\ UNCHANGED <<logger, param_groups, fn_names, fi, gi, str_params, start,
                 result, exc, now, out>>

\* exec = time.time() - start
L166 ==
  /\ pc = "L166"
  /\ exec' = now - start
  /\ trace' = Append(trace, TimeEvent)
  /\ pc' = "L167"
  /\ UNCHANGED <<logger, param_groups, fn_names, fi, gi, str_params, start,
                 result, exc, now, out>>

\* L167 updating the time only, ans left as the earlier pair set it
L167_StaleAns ==
  /\ pc = "L167"
  /\ str_params' = [str_params EXCEPT !.keys = @ \cup {"time", "ans"},
                                      !.time = exec]
  /\ pc' = "L168"
  /\ UNCHANGED <<logger, param_groups, fn_names, fi, gi, start, exec, result,
                 exc, now, out, trace>>

\* str_params |= {'time': exec, 'ans': result}
L167 ==
  /\ pc = "L167"
  /\ str_params' = [str_params EXCEPT !.keys = @ \cup {"time", "ans"},
                                      !.time = exec, !.ans = result]
  /\ pc' = "L168"
  /\ UNCHANGED <<logger, param_groups, fn_names, fi, gi, start, exec, result,
                 exc, now, out, trace>>

\* L168 printing the time line first
L168_TimeFirst ==
  /\ pc = "L168"
  /\ out' = Append(out, Emit(time_str, str_params))
  /\ trace' = Append(trace, PrintEvent)
  /\ pc' = "L169"
  /\ UNCHANGED <<logger, param_groups, fn_names, fi, gi, str_params, start,
                 exec, result, exc, now>>

\* print(ans_str.format(**str_params))
L168 ==
  /\ pc = "L168"
  /\ out' = Append(out, Emit(ans_str, str_params))
  /\ trace' = Append(trace, PrintEvent)
  /\ pc' = "L169"
  /\ UNCHANGED <<logger, param_groups, fn_names, fi, gi, str_params, start,
                 exec, result, exc, now>>

\* print(time_str.format(**str_params))
L169 ==
  /\ pc = "L169"
  /\ out' = Append(out, Emit(time_str, str_params))
  /\ trace' = Append(trace, PrintEvent)
  /\ pc' = "L157"
  /\ UNCHANGED <<logger, param_groups, fn_names, fi, gi, str_params, start,
                 exec, result, exc, now>>

Next ==
  \/ L154 \/ L155 \/ L156 \/ L157 \/ L158 \/ L160 \/ L161 \/ L162
  \/ L164 \/ L165 \/ L166 \/ L167 \/ L168 \/ L169

Spec == Init /\ [][Next]_vars

\* ----------------------------------------------------------------- notions

N == Len(fn_names)
M == Len(param_groups)

\* The run has ended: compare returned, or an exception left it.
Terminated == pc \in {"returned", "raised"}

\* The invocations made for pair (f, g), in order.
CallsOf(f, g) ==
  SelectSeq(trace, LAMBDA e : e.ev = "call" /\ e.f = f /\ e.g = g)

\* The prints of a result line made while the loops were on pair (f, g).
RecordsOf(f, g) ==
  SelectSeq(trace, LAMBDA e : /\ e.ev = "print" /\ e.f = f /\ e.g = g
                              /\ out[e.v].tmpl = ans_str)

\* An invocation that ends the attempt on its pair with an exception: the
\* unpacked one raising anything but TypeError, or the whole-group one raising.
FinalFailure(e) ==
  /\ e.ev = "call"
  /\ e.exc # "none"
  /\ ~(e.mode = "unpacked" /\ e.exc = "TypeError")

CountLines(template) == Len(SelectSeq(out, LAMBDA l : l.tmpl = template))

\* The position in trace of the print of line k of out.
PrintOf(k) == out[k].at

\* Pair (f, g) comes before the position (fi, gi) of the loops.
Before(f, g) == f < fi \/ (f = fi /\ g < gi)

\* -------------------------------------------------------------------- C1

\* C1 as stated: a failing pair does not abort the run; when the run has
\* ended, every pair has been invoked and has its record.
C1_FailureIsolation ==
  Terminated =>
    \A f \in 1..N, g \in 1..M :
      Len(CallsOf(f, g)) > 0 /\ Len(RecordsOf(f, g)) = 1

\* C1, amended: a failing invocation (the unpacked call raising anything but
\* TypeError, or the whole-group fallback raising) is the last thing the run
\* does: the exception leaves compare, the failing pair gets no record, and no
\* later pair is invoked or emitted; the records of the earlier pairs remain.
C1_FailureAborts ==
  /\ \A k \in 1..Len(trace) :
       FinalFailure(trace[k]) =>
         /\ k = Len(trace)
         /\ pc = "raised"
         /\ exc = trace[k].exc
         /\ trace[k].f = fi /\ trace[k].g = gi
  /\ pc = "raised" =>
       /\ Len(trace) > 0 /\ FinalFailure(trace[Len(trace)])
       /\ \A f \in 1..N, g \in 1..M :
            /\ Len(RecordsOf(f, g)) = (IF Before(f, g) THEN 1 ELSE 0)
            /\ (~Before(f, g) /\ <<f, g>> # <<fi, gi>>) => Len(CallsOf(f, g)) = 0

\* A run whose first callable has both its records out and whose second
\* callable then fails on its first group, a second group still to come.
C1_Witness ==
  /\ pc = "raised"
  /\ fi = 2 /\ gi = 1 /\ M = 2
  /\ CountLines(ans_str) = 2

\* -------------------------------------------------------------------- C2

\* C2 as stated: for N > 0 callables and M > 0 groups, a run that has ended
\* has emitted N headers and N*M result and time lines, whether or not an
\* invocation failed.
C2_ExactlyOneRecordPerPair ==
  (Terminated /\ N > 0 /\ M > 0) =>
    /\ CountLines(title_str) = N
    /\ CountLines(ans_str) = N * M
    /\ CountLines(time_str) = N * M

\* C2, amended: a run that returns normally has emitted exactly N headers and
\* N*M result lines and N*M time lines, one of each per pair; a run that an
\* exception ended has emitted the headers of the callables it reached and
\* the records of the pairs before the failing one only, fewer than N*M.
C2_RecordCount ==
  /\ pc = "returned" =>
       /\ CountLines(title_str) = N
       /\ CountLines(ans_str) = N * M
       /\ CountLines(time_str) = N * M
       /\ \A f \in 1..N, g \in 1..M : Len(RecordsOf(f, g)) = 1
  /\ pc = "raised" =>
       /\ CountLines(title_str) = fi
       /\ CountLines(ans_str) = (fi - 1) * M + (gi - 1)
       /\ CountLines(time_str) = (fi - 1) * M + (gi - 1)
       /\ CountLines(ans_str) < N * M

\* A run over two callables and two groups that returned normally, one of
\* its pairs having needed the fallback.
C2_Witness ==
  /\ pc = "returned"
  /\ N = 2 /\ M = 2
  /\ \E k \in 1..Len(trace) : trace[k].ev = "call" /\ trace[k].mode = "whole"

\* -------------------------------------------------------------------- C6

\* C6 as stated: with an empty callable mapping the run ends in a
\* configuration error, no callable invoked and no line emitted.
C6_EmptyRaises ==
  (N = 0 /\ Terminated) =>
    /\ pc = "raised"
    /\ out = <<>>
    /\ trace = <<>>

\* C6, amended: with an empty callable mapping compare returns normally (no
\* error reaches the caller), no callable invoked and no line emitted.
C6_EmptyReturns ==
  N = 0 =>
    /\ pc \in {"L154", "returned"}
    /\ exc = "none"
    /\ out = <<>>
    /\ trace = <<>>

\* The run over no callables and two groups has ended.
C6_Witness == N = 0 /\ M = 2 /\ Terminated

\* -------------------------------------------------------------------- C7

\* C7 as stated: every emitted line is delivered to the sink the caller
\* configured (the logger argument) and to no other destination.
C7_SinkContract == \A k \in 1..Len(out) : out[k].to = logger


\* -------------------------------------------------------------------- C3

\* Each callable's block in out is one header and two lines per group.
BlockLen == 1 + 2 * M
\* The callable, and the slot in its block (0: the header), of line k of out.
FnOfLine(k) == ((k - 1) \div BlockLen) + 1
SlotOfLine(k) == (k - 1) % BlockLen
\* The group of a line in slot r > 0: slots 1, 2 are group 1, and so on.
GroupOfSlot(r) == (r + 1) \div 2

\* C3: the lines come out callable by callable in the order of the mapping,
\* each callable's header first, then its groups in the order supplied, each
\* result line followed at once by the time line of the same pair.
C3_EmissionOrder ==
  \A k \in 1..Len(out) :
    LET f == FnOfLine(k)
        r == SlotOfLine(k)
        g == GroupOfSlot(r)
        j == PrintOf(k)
    IN /\ f \in 1..N
       /\ j \in 1..Len(trace)
       /\ trace[j].ev = "print" /\ trace[j].v = k
       /\ trace[j].f = f
       /\ trace[j].g = (IF r = 0 THEN 0 ELSE g)
       /\ k > 1 => PrintOf(k - 1) < j
       /\ r = 0 =>
            /\ out[k].tmpl = title_str
            /\ out[k].text = "Testing " \o fn_names[f] \o ":"
       /\ r > 0 => out[k].tmpl = (IF r % 2 = 1 THEN ans_str ELSE time_str)
       /\ out[k].tmpl = ans_str =>
            IF k < Len(out)
            THEN /\ out[k + 1].tmpl = time_str
                 /\ PrintOf(k + 1) = j + 1
            ELSE pc = "L169"

\* A run over two callables and two different groups has returned with all
\* ten lines out.
C3_Witness ==
  /\ pc = "returned"
  /\ N = 2 /\ M = 2
  /\ param_groups[1] # param_groups[2]
  /\ Len(out) = 10

\* -------------------------------------------------------------------- C4

\* The callable takes exactly one sequence argument.
TakesOneSequence(name) == name = "sum_seq"

\* The texts of the lines of out made from template.
TextsOf(template) ==
  LET sel == SelectSeq(out, LAMBDA l : l.tmpl = template)
  IN [k \in 1..Len(sel) |-> sel[k].text]

\* C4: for a callable taking one sequence argument and a group longer than
\* one, the unpacked invocation fails to bind, the callable is then invoked
\* once with the whole group, and the record carries that invocation's
\* result; add, sum_seq over (1, 2), (3, 4) give the four records of the
\* scenario, add's before sum_seq's.
C4_FallbackSuccess ==
  /\ \A f \in 1..N, g \in 1..M :
       (TakesOneSequence(fn_names[f]) /\ Len(param_groups[g]) > 1) =>
         LET calls == CallsOf(f, g)
             recs == RecordsOf(f, g)
         IN /\ Len(calls) >= 1 =>
                 /\ calls[1].mode = "unpacked"
                 /\ calls[1].exc = "TypeError"
                 /\ ~calls[1].bound
            /\ Len(calls) <= 2
            /\ Len(calls) = 2 =>
                 /\ calls[2].mode = "whole"
                 /\ calls[2].exc = "none"
                 /\ calls[2].val = IntV(SumSeq(param_groups[g]))
            /\ (Before(f, g) \/ pc = "returned") =>
                 /\ Len(calls) = 2
                 /\ Len(recs) = 1
                 /\ out[recs[1].v].text =
                      "\t" \o fn_names[f] \o "(" \o Str(TupV(param_groups[g]))
                        \o ") = " \o ToString(SumSeq(param_groups[g]))
  /\ (/\ fn_names = <<"add", "sum_seq">>
      /\ param_groups = << <<1, 2>>, <<3, 4>> >>
      /\ Terminated) =>
       /\ pc = "returned"
       /\ TextsOf(ans_str) = << "\tadd((1, 2)) = 3", "\tadd((3, 4)) = 7",
                                "\tsum_seq((1, 2)) = 3", "\tsum_seq((3, 4)) = 7" >>
       /\ TextsOf(title_str) = << "Testing add:", "Testing sum_seq:" >>

\* The scenario's run has returned.
C4_Witness ==
  /\ fn_names = <<"add", "sum_seq">>
  /\ param_groups = << <<1, 2>>, <<3, 4>> >>
  /\ pc = "returned"
  /\ Len(CallsOf(2, 2)) = 2

\* -------------------------------------------------------------------- C5

\* C5 as stated: the callable is invoked a second time only if the unpacked
\* invocation failed to bind; an exception from inside the callable is not
\* retried and is surfaced as a record of the failure.
C5_RetryOnlyOnBindFailure ==
  \A f \in 1..N, g \in 1..M :
    LET calls == CallsOf(f, g)
    IN /\ Len(calls) = 2 => ~calls[1].bound
       /\ (Len(calls) >= 1 /\ calls[1].bound /\ calls[1].exc # "none"
             /\ (Before(f, g) \/ Terminated)) =>
            /\ Len(calls) = 1
            /\ Len(RecordsOf(f, g)) = 1

\* C5, amended: the callable is invoked a second time, with the whole group,
\* exactly when the unpacked invocation raised TypeError, whether it failed to
\* bind or the TypeError came from inside the callable; when the unpacked
\* invocation raises any other exception the callable is not invoked again
\* for that pair, the exception leaves compare and the pair gets no record.
C5_RetryOnTypeError ==
  \A f \in 1..N, g \in 1..M :
    LET calls == CallsOf(f, g)
    IN /\ Len(calls) <= 2
       /\ Len(calls) >= 1 => calls[1].mode = "unpacked"
       /\ Len(calls) = 2 =>
            /\ calls[2].mode = "whole"
            /\ calls[1].exc = "TypeError"
       /\ (Len(calls) = 1 /\ calls[1].exc = "TypeError") =>
            (fi = f /\ gi = g /\ pc \in {"L164", "L165"})
       /\ (Len(calls) >= 1 /\ calls[1].exc \notin {"none", "TypeError"}) =>
            /\ Len(calls) = 1
            /\ pc = "raised" /\ exc = calls[1].exc
            /\ fi = f /\ gi = g
            /\ Len(RecordsOf(f, g)) = 0

\* A pair whose unpacked invocation bound its arguments, raised TypeError
\* from inside the callable, and was invoked again with the whole group.
C5_Witness ==
  \E f \in 1..N, g \in 1..M :
    /\ Len(CallsOf(f, g)) = 2
    /\ CallsOf(f, g)[1].bound
    /\ CallsOf(f, g)[1].exc = "TypeError"
    /\ Len(RecordsOf(f, g)) = 1

\* -------------------------------------------------------------------- C8

C9_TimingWindow ==
  /\ \A k \in 1..Len(out) :
       out[k].tmpl = time_str =>
         LET j == PrintOf(k)
         IN /\ j >= 5
            /\ trace[j - 1].ev = "print"
            /\ trace[j - 2].ev = "time"
            /\ trace[j - 3].ev = "call" /\ trace[j - 3].exc = "none"
            /\ trace[j - 4].ev = "time"
            /\ \A i \in (j - 4)..(j - 1) :
                 trace[i].f = trace[j].f /\ trace[i].g = trace[j].g
            /\ out[k].text =
                 "\tTime = " \o ToString(trace[j - 2].v - trace[j - 4].v)
            /\ trace[j - 2].v - trace[j - 4].v = trace[j - 3].v
  /\ \A j \in 1..Len(trace) :
       (trace[j].ev = "call" /\ trace[j].mode = "whole") =>
         /\ j >= 3
         /\ trace[j - 1].ev = "time"
         /\ trace[j - 2].ev = "call" /\ trace[j - 2].mode = "unpacked"
         /\ trace[j - 2].exc = "TypeError"
  /\ \A j \in 1..Len(trace) :
       (trace[j].ev = "call" /\ j > 1) => trace[j - 1].ev = "time"

\* A record whose unpacked attempt took a tick and failed, and whose
\* whole-group invocation took none: the time shown is 0.
C9_Witness ==
  \E k \in 1..Len(out) :
    /\ out[k].tmpl = time_str
    /\ out[k].text = "\tTime = 0"
    /\ LET j == PrintOf(k)
       IN /\ j >= 7
          /\ trace[j - 3].mode = "whole"
          /\ trace[j - 5].mode = "unpacked" /\ trace[j - 5].v = 1

\* ------------------------------------------------------------------- C10

\* C10: every result line and its time line carry the name of the callable
\* and the group of the pair the loops are on, and the result and the time of
\* that pair's own successful invocation; a pair gets a line only after its
\* invocation has returned.
C10_RecordCoherence ==
  \A k \in 1..Len(out) :
    out[k].tmpl \in {ans_str, time_str} =>
      LET j == PrintOf(k)
          f == trace[j].f
          g == trace[j].g
          calls == CallsOf(f, g)
          last == calls[Len(calls)]
          d == [keys |-> {"name", "params", "time", "ans"},
                name |-> fn_names[f],
                params |-> TupV(param_groups[g]),
                time |-> last.v,
                ans |-> last.val]
      IN /\ f \in 1..N /\ g \in 1..M
         /\ Len(calls) >= 1
         /\ last.exc = "none"
         /\ out[k].text = Format(out[k].tmpl, d)

\* Two records of one callable, one after the other, that differ in their
\* result lines and in their time lines.
C10_Witness ==
  \E k \in 1..Len(out) :
    /\ k + 3 <= Len(out)
    /\ out[k].tmpl = ans_str /\ out[k + 2].tmpl = ans_str
    /\ out[k].text # out[k + 2].text
    /\ out[k + 1].text # out[k + 3].text

====
